---- MODULE Spec2Model ----
(***************************************************************************)
(* IronRDP replay player (web-client/iron-replay-player).                  *)
(*                                                                         *)
(* Part 1  pdu-store.ts: the IndexedDB frame store.  Every exported call   *)
(*         is a task: open the database (cached in dbInstance), create a   *)
(*         transaction, place one request, settle the promise in the       *)
(*         request's onsuccess/onerror handler.  The transaction outlives  *)
(*         the promise: it commits or aborts afterwards.                   *)
(* Part 2  the replay engine behind the WASM handle, from the engine       *)
(*         capability of the specification.                                *)
(* Part 3  ReplayPlayer.svelte and routes/player/+page.svelte: the Play,   *)
(*         Stop, Reset and Step handlers and the playback loop.  An async  *)
(*         function is a task; one action is one run of a task from an     *)
(*         await to the next.                                              *)
(* Part 4  routes/+page.svelte: processFiles, the ingestion of a session.  *)
(***************************************************************************)
EXTENDS Integers, Sequences, FiniteSets, TLC

\* ---------------------------------------------------------------- bounds
MaxKey == 1
MaxCalls == 2
MaxOps == 2

MaxFrames == 3
MaxTasks == 2
MaxEvents == 3
\* files in one dropped folder, for the sort
MaxFiles == 4

\* keys of the object store; the store calls of SpecStore use StoreKeys
Keys == 0..(MaxFrames - 1)
StoreKeys == 0..MaxKey
CallIds == 1..MaxCalls
TaskIds == 1..MaxTasks

\* every call in flight can have opened one connection
MaxConns == MaxCalls

\* frame contents: what the replay engine decodes them to
\*   1 graphics update, 2 desktop resize, 3 new pointer bitmap, 4 pointer hidden
Blobs == {1, 2, 3, 4}
\* the contents the store calls of SpecStore write
StoreBlobs == {1, 2}

\* store.get() of a missing key yields undefined
Absent == 0
\* history value: the settled calls promise nothing
Unknown == Absent - 1

VARIABLES
    frames,      \* object store "frames" of database "rdp-pdus": key -> blob
    dbInstance,  \* cached connection id, 0 for null
    openConns,   \* connections opened and not closed
    calls,       \* the pdu-store calls whose promise or transaction is pending
    txQueue,     \* transactions in creation order, head is running
    txUndo,      \* contents to restore when the running readwrite tx aborts
    issued,      \* number of pdu-store calls made so far
    lastRes,     \* the outcome of the promise settled last
    lastAck,     \* history: the write reported successful last, if it stands
    \* ReplayPlayer.svelte ("component") and routes/player/+page.svelte ("page")
    variant,       \* which of the two players this is
    timing,        \* TimingEntry[]: the timeOffset of each entry
    isInitialized, \* the WASM module is loaded
    replay,        \* the session handle, 0 for null
    engines,       \* the replay engine's state behind each handle
    isPlaying,
    error,         \* "none" for null, else which message
    currentFrame,
    canvasSize,    \* canvasWidth x canvasHeight, as the id of a desktop size
    cursorCanvas,  \* cached cursor surface: a pointer bitmap id, 0 for null
    screen,        \* what the canvas shows
    tasks,         \* the async invocations of startReplay and stepFrame
    events,        \* number of user events so far
    \* routes/+page.svelte
    upload,        \* processFiles: the files given, where it is, frameCount
    rdpTiming,     \* what the uploader leaves for the player: the sessionStorage
                   \* item 'rdp-timing' (the bound `timing` of FolderUploader),
                   \* a list that holds the text of a timing.json or nothing
    \* history
    stopMark,      \* a stop with no start after it, and the steps then in flight
    stepsDone,     \* engine steps the playback loop has completed
    paced,         \* sum of the pacing delays the loop has waited
    earlier        \* an earlier processFiles invocation that is still in its loop

storeVars == <<frames, dbInstance, openConns, calls, txQueue, txUndo, issued, lastRes, lastAck>>

playerVars == <<variant, timing, isInitialized, replay, engines, isPlaying, error, currentFrame,
                canvasSize, cursorCanvas, screen, tasks, events>>

obsVars == <<upload, rdpTiming, stopMark, stepsDone, paced, earlier>>

vars == <<storeVars, playerVars, obsVars>>

\* ----------------------------------------------------------- pdu-store.ts
NoCall == [op |-> "none", pc |-> "free", key |-> 0, val |-> 0]

NoRes == [op |-> "none", key |-> 0, ok |-> TRUE, res |-> 0, expect |-> Unknown]

NoAck == [op |-> "none", key |-> 0, val |-> 0]

EmptyStore == [k \in Keys |-> Absent]

IsWrite(op) == op \in {"put", "clear", "putAll"}

\* the arrays given to storeFrames: frame i of the array goes under key i
Batches == <<<<2, 1>>>>

FreeSlots == {c \in CallIds : calls[c].pc = "free"}

FirstFree == CHOOSE c \in FreeSlots : \A d \in FreeSlots : c <= d

\* store.count()
CountOf(f) == Cardinality({k \in Keys : f[k] # Absent})

\* what a read running now must return if the settled writes are to be believed
ExpectOf(op, k) ==
    IF op = "get" /\ lastAck.op = "put" /\ lastAck.key = k THEN lastAck.val
    ELSE IF op = "count" /\ lastAck.op = "clear" THEN 0
    ELSE Unknown

\* a write being issued ends what the earlier writes promised about its keys
AckIssue(op, k) ==
    IF op = "put" /\ lastAck.op = "put" /\ lastAck.key # k THEN lastAck ELSE NoAck

\* an openDatabase() without the cache: every call opens a connection
Issue_alwaysOpens(op, k, v) ==
    /\ FreeSlots # {}
    /\ issued' = issued + 1
    /\ calls' = [calls EXCEPT ![FirstFree] = [op |-> op, pc |-> "opening", key |-> k, val |-> v]]
    /\ lastAck' = IF IsWrite(op) THEN AckIssue(op, k) ELSE lastAck
    /\ UNCHANGED <<frames, dbInstance, openConns, txQueue, txUndo, lastRes, playerVars>>

\* openDatabase() called by an exported function: the cached connection, or a
\* new indexedDB.open request.  `await openDatabase()` with a cached connection
\* resumes in the same task, where the transaction and its request are created.
Issue(op, k, v) ==
    /\ FreeSlots # {}
    /\ issued' = issued + 1
    /\ calls' = [calls EXCEPT ![FirstFree] =
                    [op |-> op, pc |-> IF dbInstance # 0 THEN "queued" ELSE "opening",
                     key |-> k, val |-> v]]
    /\ txQueue' = IF dbInstance # 0 THEN Append(txQueue, FirstFree) ELSE txQueue
    /\ lastAck' = IF IsWrite(op) THEN AckIssue(op, k) ELSE lastAck
    /\ UNCHANGED <<frames, dbInstance, openConns, txUndo, lastRes, playerVars>>

storeFrame(k, v) == Issue("put", k, v)

getFrame(k) == Issue("get", k, 0)

clearFrames == Issue("clear", 0, 0)

getFrameCount == Issue("count", 0, 0)

\* storeFrames(frames): `key` counts the puts of the batch that have succeeded
storeFrames(b) == Issue("putAll", 0, b)

getAllFrames == Issue("getAll", 0, 0)

\* frames[cursor.key] = cursor.value on a JavaScript array: the array grows to
\* hold the index, and the positions never assigned are holes
ArraySet_push(arr, k, v) == Append(arr, v)

ArraySet(arr, k, v) ==
    [i \in 1..(IF Len(arr) > k + 1 THEN Len(arr) ELSE k + 1) |->
        IF i = k + 1 THEN v ELSE IF i <= Len(arr) THEN arr[i] ELSE Absent]

\* the cursor of getAllFrames walks the keys in ascending order
RECURSIVE CursorWalk(_, _)
CursorWalk(ks, arr) ==
    IF ks = {} THEN arr
    ELSE LET k == CHOOSE x \in ks : \A y \in ks : x <= y
         IN CursorWalk(ks \ {k}, ArraySet(arr, k, frames[k]))

\* a get that answers with the k-th stored frame, whatever its key
ResultOf_dense(op, k) ==
    IF op = "get"
    THEN LET ks == {x \in Keys : frames[x] # Absent}
             at == {x \in ks : Cardinality({y \in ks : y < x}) = k}
         IN IF at = {} THEN Absent ELSE frames[CHOOSE x \in at : TRUE]
    ELSE IF op = "count" THEN CountOf(frames)
    ELSE IF op = "getAll" THEN CursorWalk({x \in Keys : frames[x] # Absent}, <<>>)
    ELSE 0

\* request.result of a request that succeeded
ResultOf(op, k) ==
    IF op = "get" THEN frames[k]
    ELSE IF op = "count" THEN CountOf(frames)
    ELSE IF op = "getAll" THEN CursorWalk({x \in Keys : frames[x] # Absent}, <<>>)
    ELSE 0

NewConn == CHOOSE n \in 1..MaxConns : n \notin openConns /\ \A m \in 1..(n - 1) : m \in openConns

\* request.onsuccess of indexedDB.open: dbInstance = request.result
openDatabase_onsuccess ==
    \E c \in CallIds :
        /\ calls[c].pc = "opening"
        /\ Cardinality(openConns) < MaxConns
        /\ dbInstance' = NewConn
        /\ openConns' = openConns \cup {NewConn}
        /\ calls' = [calls EXCEPT ![c].pc = "queued"]
        /\ txQueue' = Append(txQueue, c)
        /\ UNCHANGED <<issued, frames, txUndo, lastRes, lastAck, playerVars>>

\* request.onerror of indexedDB.open: the call's promise rejects
openDatabase_onerror ==
    \E c \in CallIds :
        /\ calls[c].pc = "opening"
        /\ lastRes' = [op |-> calls[c].op, key |-> calls[c].key, ok |-> FALSE,
                       res |-> 0, expect |-> Unknown]
        /\ calls' = [calls EXCEPT ![c] = NoCall]
        /\ UNCHANGED <<issued, frames, dbInstance, openConns, txQueue, txUndo, lastAck, playerVars>>

OtherWritePending(c) ==
    \E d \in CallIds \ {c} : calls[d].pc \in {"opening", "queued"} /\ IsWrite(calls[d].op)

\* the running transaction's request succeeds: onsuccess resolves the promise.
\* A readonly transaction is over with it; a readwrite one still has to commit.
request_onsuccess ==
    /\ txQueue # <<>>
    /\ LET c == Head(txQueue)
           op == calls[c].op
           k == calls[c].key
       IN /\ calls[c].pc = "queued" /\ op # "putAll"
          /\ frames' = IF op = "put" THEN [frames EXCEPT ![k] = calls[c].val]
                       ELSE IF op = "clear" THEN EmptyStore
                       ELSE frames
          /\ lastRes' = [op |-> op, key |-> k, ok |-> TRUE, res |-> ResultOf(op, k),
                         expect |-> ExpectOf(op, k)]
          /\ calls' = IF IsWrite(op) THEN [calls EXCEPT ![c].pc = "committing"]
                      ELSE [calls EXCEPT ![c] = NoCall]
          /\ txUndo' = IF IsWrite(op) THEN frames ELSE txUndo
          /\ txQueue' = IF IsWrite(op) THEN txQueue ELSE Tail(txQueue)
          /\ lastAck' = IF ~IsWrite(op) THEN lastAck
                        ELSE IF OtherWritePending(c) THEN NoAck
                        ELSE [op |-> op, key |-> k, val |-> calls[c].val]
    /\ UNCHANGED <<issued, dbInstance, openConns, playerVars>>

\* the running transaction's request fails: onerror rejects the promise and the
\* unhandled error aborts the transaction
request_onerror ==
    /\ txQueue # <<>>
    /\ LET c == Head(txQueue)
       IN /\ calls[c].pc = "queued" /\ calls[c].op # "putAll"
          /\ lastRes' = [op |-> calls[c].op, key |-> calls[c].key, ok |-> FALSE,
                         res |-> 0, expect |-> Unknown]
          /\ calls' = [calls EXCEPT ![c] = NoCall]
          /\ txQueue' = Tail(txQueue)
    /\ UNCHANGED <<issued, frames, dbInstance, openConns, txUndo, lastAck, playerVars>>

\* a storeFrames whose every put is a transaction of its own
storeFrames_put_commitsEach ==
    /\ txQueue # <<>>
    /\ LET c == Head(txQueue)
           n == calls[c].key
       IN /\ calls[c].pc = "queued" /\ calls[c].op = "putAll"
          /\ frames' = [frames EXCEPT ![n] = Batches[calls[c].val][n + 1]]
          /\ txUndo' = frames
          /\ calls' = [calls EXCEPT ![c].key = n + 1,
                                    ![c].pc = IF n + 1 = Len(Batches[calls[c].val])
                                              THEN "committing" ELSE "queued"]
    /\ UNCHANGED <<issued, dbInstance, openConns, txQueue, lastRes, lastAck, playerVars>>

\* the next put request of the running storeFrames transaction succeeds; the
\* promise is not settled by it.  After the last one the transaction commits.
storeFrames_put_onsuccess ==
    /\ txQueue # <<>>
    /\ LET c == Head(txQueue)
           n == calls[c].key
       IN /\ calls[c].pc = "queued" /\ calls[c].op = "putAll"
          /\ frames' = [frames EXCEPT ![n] = Batches[calls[c].val][n + 1]]
          /\ txUndo' = IF n = 0 THEN frames ELSE txUndo
          /\ calls' = [calls EXCEPT ![c].key = n + 1,
                                    ![c].pc = IF n + 1 = Len(Batches[calls[c].val])
                                              THEN "committing" ELSE "queued"]
    /\ UNCHANGED <<issued, dbInstance, openConns, txQueue, lastRes, lastAck, playerVars>>

\* a put request of the running storeFrames transaction fails: the error
\* reaches transaction.onerror, which rejects, and the transaction aborts
storeFrames_put_onerror ==
    /\ txQueue # <<>>
    /\ LET c == Head(txQueue)
       IN /\ calls[c].pc = "queued" /\ calls[c].op = "putAll"
          /\ frames' = IF calls[c].key > 0 THEN txUndo ELSE frames
          /\ lastRes' = [op |-> "putAll", key |-> 0, ok |-> FALSE, res |-> 0, expect |-> Unknown]
          /\ calls' = [calls EXCEPT ![c] = NoCall]
          /\ txQueue' = Tail(txQueue)
          /\ txUndo' = EmptyStore
    /\ UNCHANGED <<issued, dbInstance, openConns, lastAck, playerVars>>

\* the readwrite transaction whose requests succeeded commits;
\* transaction.oncomplete of storeFrames resolves its promise
tx_oncomplete ==
    /\ txQueue # <<>>
    /\ calls[Head(txQueue)].pc = "committing"
    /\ lastRes' = IF calls[Head(txQueue)].op = "putAll"
                  THEN [op |-> "putAll", key |-> 0, ok |-> TRUE, res |-> 0, expect |-> Unknown]
                  ELSE lastRes
    /\ calls' = [calls EXCEPT ![Head(txQueue)] = NoCall]
    /\ txQueue' = Tail(txQueue)
    /\ txUndo' = EmptyStore
    /\ UNCHANGED <<issued, frames, dbInstance, openConns, lastAck, playerVars>>

\* the readwrite transaction aborts at commit (quota, I/O): its writes are undone.
\* storeFrame and clearFrames register no handler on the transaction, and
\* storeFrames none for its abort event: no promise is settled here.
tx_onabort ==
    /\ txQueue # <<>>
    /\ calls[Head(txQueue)].pc = "committing"
    /\ frames' = txUndo
    /\ calls' = [calls EXCEPT ![Head(txQueue)] = NoCall]
    /\ txQueue' = Tail(txQueue)
    /\ txUndo' = EmptyStore
    /\ UNCHANGED <<issued, dbInstance, openConns, lastRes, lastAck, playerVars>>

\* a closeDatabase() that closes the connection and keeps it cached
closeDatabase_keepsCache ==
    /\ dbInstance # 0
    /\ openConns' = openConns \ {dbInstance}
    /\ UNCHANGED <<dbInstance, issued, frames, calls, txQueue, txUndo, lastRes, lastAck, playerVars>>

\* closeDatabase(): close and forget the cached connection
closeDatabase ==
    /\ dbInstance # 0
    /\ openConns' = openConns \ {dbInstance}
    /\ dbInstance' = 0
    /\ UNCHANGED <<issued, frames, calls, txQueue, txUndo, lastRes, lastAck, playerVars>>

\* ------------------------------------------------ the replay engine (WASM)
\* The engine is the repository's Rust crate behind ./wasm/ironrdp_replay_player;
\* it is modelled from section 6 of the specification.
DEFAULT_SIZE == 0

NewEngine == [cur |-> 0, resolutionChanged |-> FALSE, pointerBitmapChanged |-> FALSE]

\* number of frames of the session in the store
TotalFrames == CountOf(frames)

\* desktop size after decoding the first n frames: a resize frame at key k
\* switches to size k + 1
RECURSIVE DesktopAfter(_)
DesktopAfter(n) ==
    IF n = 0 THEN DEFAULT_SIZE
    ELSE IF frames[n - 1] = 2 THEN n ELSE DesktopAfter(n - 1)

\* pointer bitmap after decoding the first n frames, 0 for the empty bitmap
RECURSIVE PointerAfter(_)
PointerAfter(n) ==
    IF n = 0 THEN 0
    ELSE IF frames[n - 1] = 3 THEN n
    ELSE IF frames[n - 1] = 4 THEN 0
    ELSE PointerAfter(n - 1)

\* step(): decode the frame at the playhead and advance
EngineStep(e) ==
    IF e.cur < TotalFrames
    THEN [cur |-> e.cur + 1,
          resolutionChanged |-> e.resolutionChanged \/ frames[e.cur] = 2,
          pointerBitmapChanged |-> e.pointerBitmapChanged \/ frames[e.cur] \in {3, 4}]
    ELSE e

\* the hasMore that step() resolves to
HasMore(e) == EngineStep(e).cur < TotalFrames

\* reset(): rewind to the state of a fresh handle
EngineReset(e) == NewEngine

\* ------------------------------------- ReplayPlayer.svelte, player/+page.svelte
FALLBACK_DELAY == 16

\* the text of a timing.json: well-formed with the timeOffsets of its entries,
\* or not JSON
TextOf(entries) == [ok |-> TRUE, entries |-> entries]

NoText == [ok |-> FALSE, entries |-> <<>>]

\* timing after `if (timingData) { try { timing = JSON.parse(timingData) } catch ... }`
LoadedTiming ==
    IF rdpTiming # <<>> /\ rdpTiming[1].ok THEN rdpTiming[1].entries ELSE timing

NoTask == [kind |-> "none", pc |-> "none", h |-> 0, lastTimeOffset |-> 0, delay |-> 0]

Blank == [pix |-> Unknown, size |-> DEFAULT_SIZE, cursor |-> 0]

Unused == {t \in TaskIds : tasks[t].kind = "none"}

NextTask == CHOOSE t \in Unused : \A u \in Unused : t <= u

UserEvent ==
    /\ events < MaxEvents
    /\ events' = events + 1

\* timing[0]?.timeOffset ?? 0
StartOffset == IF Len(timing) > 0 THEN timing[1] ELSE 0

\* a handleUpdates that never calls clearPointerBitmapChanged()
HandledEngine_keepsPointerFlag(e) == [e EXCEPT !.resolutionChanged = FALSE]

\* handleUpdates(): consume the one-shot flags of the live handle
HandledEngine(e) == [e EXCEPT !.resolutionChanged = FALSE, !.pointerBitmapChanged = FALSE]

CanvasAfterUpdates(e) == IF e.resolutionChanged THEN DesktopAfter(e.cur) ELSE canvasSize

\* an updateCursorCanvas that returns on an empty bitmap without dropping the cache
CursorAfterUpdates_keepsOnEmpty(e) ==
    IF e.pointerBitmapChanged /\ PointerAfter(e.cur) # 0 THEN PointerAfter(e.cur) ELSE cursorCanvas

\* updateCursorCanvas(): an empty bitmap means no cursor surface
CursorAfterUpdates(e) == IF e.pointerBitmapChanged THEN PointerAfter(e.cur) ELSE cursorCanvas

\* a handler that blits and composites first and handles the updates last:
\* assigning canvas.width discards what was drawn
Rendered_blitBeforeUpdates(e) ==
    IF e.resolutionChanged
    THEN [pix |-> Unknown, size |-> DesktopAfter(e.cur), cursor |-> 0]
    ELSE [pix |-> e.cur, size |-> canvasSize, cursor |-> cursorCanvas]

\* renderFrame() and renderCursor() after handleUpdates()
Rendered(e) == [pix |-> e.cur, size |-> CanvasAfterUpdates(e), cursor |-> CursorAfterUpdates(e)]

\* a handle that `replay` no longer names and no pending step() was called on
\* is unreachable: its engine is dropped
Collected(es, live, ts) ==
    [h \in TaskIds |->
        IF h = live \/ \E t \in TaskIds : ts[t].pc = "stepping" /\ ts[t].h = h
        THEN es[h] ELSE NewEngine]

\* what follows `await replay.step()` in playFrames and stepFrame: read
\* currentFrame from the live handle, handleUpdates(), renderFrame()
AfterStep(es, ts) ==
    /\ currentFrame' = es[replay].cur
    /\ canvasSize' = CanvasAfterUpdates(es[replay])
    /\ cursorCanvas' = CursorAfterUpdates(es[replay])
    /\ screen' = Rendered(es[replay])
    /\ engines' = Collected([es EXCEPT ![replay] = HandledEngine(es[replay])], replay, ts)
    /\ tasks' = ts

\* the top of `while (isPlaying)`: call replay.step() or leave the loop
LoopTop(task, playing) ==
    IF playing THEN [task EXCEPT !.pc = "stepping", !.h = replay, !.delay = 0]
    ELSE [task EXCEPT !.pc = "stopped", !.h = 0, !.lastTimeOffset = 0, !.delay = 0]

\* playFrames() up to its first await
playFrames_enter ==
    [kind |-> "loop", pc |-> "stepping", h |-> replay, lastTimeOffset |-> StartOffset,
     delay |-> 0]

\* const currentTiming = timing[currentFrame]; if (currentTiming)
HasTiming(cf) == cf < Len(timing)

\* a loop that waits for the offset itself instead of the difference
PacingDelay_absolute(cf, last) ==
    IF HasTiming(cf) THEN timing[cf + 1] ELSE FALLBACK_DELAY

\* the delay of the loop after the frame that left the playhead at cf
PacingDelay(cf, last) ==
    IF HasTiming(cf) THEN timing[cf + 1] - last ELSE FALLBACK_DELAY

\* a loop body without the `if (!hasMore) break`
LoopBody_noBreak(task, hasMore, cf, playing) ==
    LET delay == PacingDelay(cf, task.lastTimeOffset)
        next == [task EXCEPT !.delay = delay,
                      !.lastTimeOffset = IF HasTiming(cf) THEN timing[cf + 1] ELSE @]
    IN IF delay > 0 THEN [next EXCEPT !.pc = "delaying", !.h = 0]
       ELSE LoopTop(next, playing)

\* a loop body that awaits the setTimeout whatever the delay
LoopBody_alwaysWaits(task, hasMore, cf, playing) ==
    IF ~hasMore
    THEN [task EXCEPT !.pc = "complete", !.h = 0, !.lastTimeOffset = 0, !.delay = 0]
    ELSE [task EXCEPT !.pc = "delaying", !.h = 0,
                      !.delay = PacingDelay(cf, task.lastTimeOffset),
                      !.lastTimeOffset = IF HasTiming(cf) THEN timing[cf + 1] ELSE @]

\* the loop body after renderFrame(): break when no frame is left, else pace
\* and go back to the top of the loop
LoopBody(task, hasMore, cf, playing) ==
    IF ~hasMore
    THEN [task EXCEPT !.pc = "complete", !.h = 0, !.lastTimeOffset = 0, !.delay = 0]
    ELSE LET delay == PacingDelay(cf, task.lastTimeOffset)
             next == [task EXCEPT !.delay = delay,
                           !.lastTimeOffset = IF HasTiming(cf) THEN timing[cf + 1] ELSE @]
         IN IF delay > 0 THEN [next EXCEPT !.pc = "delaying", !.h = 0]
            ELSE LoopTop(next, playing)

\* onMount of the component: load the WASM module.  Its `timing` prop is what
\* the embedding page binds from FolderUploader.
onMount_component ==
    /\ variant = "component"
    /\ ~isInitialized /\ error = "none"
    /\ timing' = LoadedTiming
    /\ \/ isInitialized' = TRUE /\ error' = error
       \/ isInitialized' = FALSE /\ error' = "wasm"
    /\ UNCHANGED <<variant, replay, engines, isPlaying, currentFrame, canvasSize,
                   cursorCanvas, screen, tasks, events, storeVars>>

\* onMount of the page: load the timing from sessionStorage, leave when the
\* store is empty, else load the WASM module and create the replay instance
onMount_page ==
    /\ variant = "page"
    /\ ~isInitialized /\ error = "none"
    /\ TotalFrames > 0
    /\ timing' = LoadedTiming
    /\ \/ isInitialized' = TRUE /\ replay' = 1 /\ error' = error
       \/ isInitialized' = TRUE /\ replay' = 0 /\ error' = "init"
       \/ isInitialized' = FALSE /\ replay' = 0 /\ error' = "init"
    /\ lastRes' = [op |-> "count", key |-> 0, ok |-> TRUE, res |-> TotalFrames, expect |-> Unknown]
    /\ UNCHANGED <<variant, engines, isPlaying, currentFrame, canvasSize,
                   cursorCanvas, screen, tasks, events>>
    /\ UNCHANGED <<frames, dbInstance, openConns, calls, txQueue, txUndo, issued, lastAck>>

\* onMount of the page when the awaited getFrameCount() rejects (the open or
\* the count request fails): the await stands before the try block, so the
\* callback ends by the rejection; the timing was already loaded
onMount_page_countRejected ==
    /\ variant = "page"
    /\ ~isInitialized /\ error = "none"
    /\ timing' = LoadedTiming
    /\ lastRes' = [op |-> "count", key |-> 0, ok |-> FALSE, res |-> 0, expect |-> Unknown]
    /\ UNCHANGED <<variant, isInitialized, replay, engines, isPlaying, error, currentFrame,
                   canvasSize, cursorCanvas, screen, tasks, events>>
    /\ UNCHANGED <<frames, dbInstance, openConns, calls, txQueue, txUndo, issued, lastAck>>

\* startReplay() of the component (Play button: shown while not playing,
\* disabled until initialized): await Replay.create(...)
startReplay_component ==
    /\ variant = "component"
    /\ isInitialized /\ ~isPlaying
    /\ Unused # {}
    /\ UserEvent
    /\ tasks' = [tasks EXCEPT ![NextTask] = [NoTask EXCEPT !.kind = "loop", !.pc = "creating"]]
    /\ UNCHANGED <<variant, timing, isInitialized, replay, engines, isPlaying, error,
                   currentFrame, canvasSize, cursorCanvas, screen, storeVars>>

\* Replay.create resolved: a fresh handle, isPlaying = true, playFrames()
create_resolved(t) ==
    /\ tasks[t].pc = "creating"
    /\ replay' = t
    /\ tasks' = [tasks EXCEPT ![t] = [playFrames_enter EXCEPT !.h = t]]
    /\ engines' = Collected([engines EXCEPT ![t] = NewEngine], t, tasks')
    /\ isPlaying' = TRUE
    /\ error' = "none"
    /\ UNCHANGED <<variant, timing, isInitialized, currentFrame, canvasSize,
                   cursorCanvas, screen, events, storeVars>>

\* Replay.create rejected: the catch of startReplay
create_rejected(t) ==
    /\ tasks[t].pc = "creating"
    /\ error' = "create"
    /\ isPlaying' = FALSE
    /\ tasks' = [tasks EXCEPT ![t].pc = "failed"]
    /\ UNCHANGED <<variant, timing, isInitialized, replay, engines, currentFrame,
                   canvasSize, cursorCanvas, screen, events, storeVars>>

\* startReplay() of the page (togglePlayPause while not playing, or the big
\* play button): the handle of onMount is reused
startReplay_page ==
    /\ variant = "page"
    /\ ~isPlaying
    /\ UserEvent
    /\ IF ~isInitialized \/ replay = 0
       THEN /\ error' = "notready"
            /\ UNCHANGED <<isPlaying, tasks>>
       ELSE /\ Unused # {}
            /\ isPlaying' = TRUE
            /\ error' = "none"
            /\ tasks' = [tasks EXCEPT ![NextTask] = playFrames_enter]
    /\ UNCHANGED <<variant, timing, isInitialized, replay, engines, currentFrame,
                   canvasSize, cursorCanvas, screen, storeVars>>

\* the loop's `await replay.step()` resolved
step_resolved(t) ==
    /\ tasks[t].kind = "loop" /\ tasks[t].pc = "stepping"
    /\ LET h == tasks[t].h
           hasMore == HasMore(engines[h])
           es == [engines EXCEPT ![h] = EngineStep(engines[h])]
       IN /\ isPlaying' = (hasMore /\ isPlaying)
          /\ AfterStep(es, [tasks EXCEPT ![t] =
                              LoopBody(tasks[t], hasMore, es[replay].cur, isPlaying)])
    /\ UNCHANGED <<variant, timing, isInitialized, replay, error, events, storeVars>>

\* a catch of playFrames that leaves isPlaying as it is
step_rejected_keepsPlaying(t) ==
    /\ tasks[t].kind = "loop" /\ tasks[t].pc = "stepping"
    /\ error' = "playback"
    /\ tasks' = [tasks EXCEPT ![t].pc = "failed", ![t].h = 0, ![t].lastTimeOffset = 0]
    /\ engines' = Collected(engines, replay, tasks')
    /\ UNCHANGED <<variant, timing, isInitialized, replay, isPlaying, currentFrame,
                   canvasSize, cursorCanvas, screen, events, storeVars>>

\* the loop's `await replay.step()` rejected: the catch of playFrames
step_rejected(t) ==
    /\ tasks[t].kind = "loop" /\ tasks[t].pc = "stepping"
    /\ error' = "playback"
    /\ isPlaying' = FALSE
    /\ tasks' = [tasks EXCEPT ![t].pc = "failed", ![t].h = 0, ![t].lastTimeOffset = 0]
    /\ engines' = Collected(engines, replay, tasks')
    /\ UNCHANGED <<variant, timing, isInitialized, replay, currentFrame,
                   canvasSize, cursorCanvas, screen, events, storeVars>>

\* the pacing setTimeout fired: back to the top of the loop
timer_fired(t) ==
    /\ tasks[t].pc = "delaying"
    /\ tasks' = [tasks EXCEPT ![t] = LoopTop(tasks[t], isPlaying)]
    /\ UNCHANGED <<variant, timing, isInitialized, replay, engines, isPlaying, error,
                   currentFrame, canvasSize, cursorCanvas, screen, events, storeVars>>

\* stopReplay(): the Stop button of the component (shown while playing),
\* togglePlayPause of the page while playing
stopReplay ==
    /\ isPlaying
    /\ UserEvent
    /\ isPlaying' = FALSE
    /\ UNCHANGED <<variant, timing, isInitialized, replay, engines, error, currentFrame,
                   canvasSize, cursorCanvas, screen, tasks, storeVars>>

\* resetReplay(): the Reset button (disabled without a handle); the page
\* also binds it to the R and ArrowLeft keys and blacks the canvas out
resetReplay ==
    /\ replay # 0
    /\ UserEvent
    /\ engines' = [engines EXCEPT ![replay] = EngineReset(engines[replay])]
    /\ currentFrame' = 0
    /\ screen' = IF variant = "page" THEN [Blank EXCEPT !.size = canvasSize] ELSE screen
    /\ UNCHANGED <<variant, timing, isInitialized, replay, isPlaying, error, canvasSize,
                   cursorCanvas, tasks, storeVars>>

\* a Step control that is not disabled while playing
stepFrame_anytime ==
    /\ isInitialized \/ variant = "page"
    /\ UserEvent
    /\ IF replay = 0
       THEN /\ error' = IF variant = "component" THEN "noreplay" ELSE error
            /\ UNCHANGED tasks
       ELSE /\ Unused # {}
            /\ tasks' = [tasks EXCEPT ![NextTask] =
                            [NoTask EXCEPT !.kind = "step", !.pc = "stepping", !.h = replay]]
            /\ UNCHANGED error
    /\ UNCHANGED <<variant, timing, isInitialized, replay, engines, isPlaying, currentFrame,
                   canvasSize, cursorCanvas, screen, storeVars>>

\* stepFrame(): the Step button (disabled until initialized and while
\* playing); the page also binds it to ArrowRight while not playing
stepFrame ==
    /\ ~isPlaying
    /\ isInitialized \/ variant = "page"
    /\ UserEvent
    /\ IF replay = 0
       THEN /\ error' = IF variant = "component" THEN "noreplay" ELSE error
            /\ UNCHANGED tasks
       ELSE /\ Unused # {}
            /\ tasks' = [tasks EXCEPT ![NextTask] =
                            [NoTask EXCEPT !.kind = "step", !.pc = "stepping", !.h = replay]]
            /\ UNCHANGED error
    /\ UNCHANGED <<variant, timing, isInitialized, replay, engines, isPlaying, currentFrame,
                   canvasSize, cursorCanvas, screen, storeVars>>

\* stepFrame's `await replay.step()` resolved
single_resolved(t) ==
    /\ tasks[t].kind = "step" /\ tasks[t].pc = "stepping"
    /\ AfterStep([engines EXCEPT ![tasks[t].h] = EngineStep(engines[tasks[t].h])],
                 [tasks EXCEPT ![t].pc = "complete", ![t].h = 0])
    /\ UNCHANGED <<variant, timing, isInitialized, replay, isPlaying, error, events, storeVars>>

\* stepFrame's `await replay.step()` rejected
single_rejected(t) ==
    /\ tasks[t].kind = "step" /\ tasks[t].pc = "stepping"
    /\ error' = "step"
    /\ tasks' = [tasks EXCEPT ![t].pc = "failed", ![t].h = 0]
    /\ engines' = Collected(engines, replay, tasks')
    /\ UNCHANGED <<variant, timing, isInitialized, replay, isPlaying,
                   currentFrame, canvasSize, cursorCanvas, screen, events, storeVars>>

\* ------------------------------------------------------- routes/+page.svelte
\* a session as the capture tool writes it: the file named k holds Session[k + 1]
Session == <<1, 3, 2, 4, 1>>

\* file names are character sequences: the digits are 0..9, Dot is a
\* punctuation mark and the Letter* are letters
Dot == 10

LetterJ == 11

LetterT == 12

IsDigit(c) == c < Dot

\* 'timing.json', shortened to "t.j"
TimingJson == <<LetterT, Dot, LetterJ>>

\* the regular expression /^(\d+)/: the longest leading run of digits
RECURSIVE LeadingDigits(_)
LeadingDigits(name) ==
    IF name = <<>> \/ ~IsDigit(name[1]) THEN <<>>
    ELSE <<name[1]>> \o LeadingDigits(Tail(name))

\* the value of a run of decimal digits
RECURSIVE DecimalValue(_)
DecimalValue(ds) ==
    IF ds = <<>> THEN 0
    ELSE DecimalValue(SubSeq(ds, 1, Len(ds) - 1)) * 10 + ds[Len(ds)]

\* parseInt(name, 10) of a name that starts with a digit
parseInt(name) == DecimalValue(LeadingDigits(name))

\* the regular expression /^\d+$/: a frame candidate
IsFrameName(name) == name # <<>> /\ LeadingDigits(name) = name

\* collation order of single characters: punctuation, digits, letters
Rank(c) == IF c = Dot THEN 0 - 1 ELSE c

\* a.localeCompare(b, undefined, {numeric: true}): runs of digits compare by
\* value, other characters by collation order
RECURSIVE localeCompare(_, _)
localeCompare(a, b) ==
    IF a = <<>> \/ b = <<>>
    THEN IF a = b THEN 0 ELSE IF a = <<>> THEN 0 - 1 ELSE 1
    ELSE IF IsDigit(a[1]) /\ IsDigit(b[1])
    THEN LET da == LeadingDigits(a)
             db == LeadingDigits(b)
         IN IF DecimalValue(da) # DecimalValue(db)
            THEN IF DecimalValue(da) < DecimalValue(db) THEN 0 - 1 ELSE 1
            ELSE localeCompare(SubSeq(a, Len(da) + 1, Len(a)), SubSeq(b, Len(db) + 1, Len(b)))
    ELSE IF a[1] = b[1] THEN localeCompare(Tail(a), Tail(b))
    ELSE IF Rank(a[1]) < Rank(b[1]) THEN 0 - 1 ELSE 1

\* a comparator that compares the names as plain text
compareNames_text(a, b) ==
    LET Cmp[i \in 1..(Len(a) + 1)] ==
            IF i > Len(a) \/ i > Len(b)
            THEN IF Len(a) = Len(b) THEN 0 ELSE IF i > Len(a) THEN 0 - 1 ELSE 1
            ELSE IF a[i] = b[i] THEN Cmp[i + 1]
            ELSE IF (IF a[i] = 10 THEN 0 - 1 ELSE a[i]) < (IF b[i] = 10 THEN 0 - 1 ELSE b[i])
                 THEN 0 - 1 ELSE 1
    IN Cmp[1]

\* the comparator of naturalSort
compareNames(a, b) ==
    IF LeadingDigits(a) # <<>> /\ LeadingDigits(b) # <<>>
    THEN parseInt(a) - parseInt(b)
    ELSE localeCompare(a, b)

\* naturalSort(files).  Array.prototype.sort is stable and the comparator
\* orders the names consistently, so a file goes behind those that compare
\* smaller and those that compare equal and were given before it.
naturalSort(files) ==
    LET Before(i) == {j \in DOMAIN files :
                        \/ compareNames(files[j].name, files[i].name) < 0
                        \/ compareNames(files[j].name, files[i].name) = 0 /\ j < i}
    IN [p \in DOMAIN files |->
            files[CHOOSE i \in DOMAIN files : Cardinality(Before(i)) = p - 1]]

\* a filter that takes every name that starts with a digit
pduFilter_leadingDigits(fileArray) ==
    SelectSeq(fileArray, LAMBDA f : LeadingDigits(f.name) # <<>>)

\* fileArray.filter(f => /^\d+$/.test(f.name))
pduFilter(fileArray) == SelectSeq(fileArray, LAMBDA f : IsFrameName(f.name))

\* the decimal spelling of k
RECURSIVE Digits(_)
Digits(k) == IF k < 10 THEN <<k>> ELSE Digits(k \div 10) \o <<k % 10>>

FrameFile(k) == [name |-> Digits(k), data |-> Session[k + 1]]

TimingFile == [name |-> TimingJson, data |-> 0]

\* files: the files given; text: what the timing.json among them holds;
\* fileArray: the sorted array; n: pduFiles.length; i: the loop index
NoUpload == [pc |-> "idle", n |-> 0, i |-> 0, frameCount |-> 0, files |-> <<>>,
             text |-> NoText, fileArray |-> <<>>]

\* fileArray.find(f => f.name === 'timing.json')
TimingFileIn(fileArray) == \E i \in DOMAIN fileArray : fileArray[i].name = TimingJson

\* processFiles(): `const fileArray = naturalSort(Array.from(files))`
naturalSort_call ==
    /\ upload.pc = "idle"
    /\ upload' = [upload EXCEPT !.fileArray = naturalSort(upload.files), !.pc = "sorted"]
    /\ UNCHANGED <<storeVars, playerVars, rdpTiming>>

\* the promise awaited last has settled
Settled == \A c \in CallIds : calls[c].pc \notin {"opening", "queued"}

\* from the filter of the frame candidates to `await clearFrames()`
BeginClear(fileArray) ==
    /\ clearFrames
    /\ upload' = [upload EXCEPT !.pc = "clearing", !.fileArray = fileArray,
                                !.n = Len(pduFilter(fileArray))]

\* processFiles(), handleFolderSelect() of FolderUploader: sort the files and
\* look for timing.json; `await timingFile.text()` when there is one, else
\* forget the timing and go on to clear the store
processFiles_begin ==
    /\ upload.pc = "idle" /\ upload.files # <<>>
    /\ LET fileArray == naturalSort(upload.files)
       IN IF TimingFileIn(fileArray)
          THEN /\ upload' = [upload EXCEPT !.pc = "reading", !.fileArray = fileArray]
               /\ UNCHANGED <<storeVars, playerVars, rdpTiming>>
          ELSE /\ rdpTiming' = <<>>
               /\ BeginClear(fileArray)

\* the text is there: JSON.parse gives the timing, which is kept for the
\* player; when it throws the catch logs and nothing is written
processFiles_text ==
    /\ upload.pc = "reading"
    /\ rdpTiming' = IF upload.text.ok THEN <<upload.text>> ELSE rdpTiming
    /\ BeginClear(upload.fileArray)

\* the loop over pduFiles: `await file.arrayBuffer()`
processFiles_read ==
    /\ upload.pc \in {"clearing", "storing"}
    /\ Settled /\ lastRes.ok
    /\ upload.i < upload.n
    /\ upload' = [upload EXCEPT !.pc = "buffering"]
    /\ UNCHANGED <<storeVars, playerVars, rdpTiming>>

\* the bytes are there: `await storeFrame(parseInt(file.name, 10), uint8Array)`
processFiles_store ==
    /\ upload.pc = "buffering"
    /\ LET file == pduFilter(upload.fileArray)[upload.i + 1]
       IN storeFrame(parseInt(file.name), file.data)
    /\ upload' = [upload EXCEPT !.pc = "storing", !.i = @ + 1]
    /\ UNCHANGED rdpTiming

\* file.arrayBuffer() rejects: the file cannot be read
processFiles_unreadable ==
    /\ upload.pc = "buffering"
    /\ upload' = [upload EXCEPT !.pc = "error"]
    /\ UNCHANGED <<storeVars, playerVars, rdpTiming>>

\* after the loop: `frameCount = await getFrameCount()`
processFiles_count ==
    /\ upload.pc \in {"clearing", "storing"}
    /\ Settled /\ lastRes.ok
    /\ upload.i = upload.n
    /\ getFrameCount
    /\ upload' = [upload EXCEPT !.pc = "counting"]
    /\ UNCHANGED rdpTiming

\* uploadState.status = 'success'
processFiles_done ==
    /\ upload.pc = "counting"
    /\ Settled /\ lastRes.ok
    /\ upload' = [upload EXCEPT !.pc = "success", !.frameCount = lastRes.res]
    /\ UNCHANGED <<storeVars, playerVars, rdpTiming>>

\* a catch that empties the store again
processFiles_catch_clears ==
    /\ upload.pc \in {"clearing", "storing", "counting"}
    /\ \A c \in CallIds : calls[c].pc \notin {"opening", "queued"}
    /\ ~lastRes.ok
    /\ Issue("clear", 0, 0)
    /\ upload' = [upload EXCEPT !.pc = "error"]
    /\ UNCHANGED rdpTiming

\* the catch of processFiles: uploadState.status = 'error'
processFiles_catch ==
    /\ upload.pc \in {"clearing", "storing", "counting"}
    /\ Settled /\ ~lastRes.ok
    /\ upload' = [upload EXCEPT !.pc = "error"]
    /\ UNCHANGED <<storeVars, playerVars, rdpTiming>>

\* ------------------------------------------------------------ history marks
LoopsAt(pcs) == {t \in TaskIds : tasks[t].kind = "loop" /\ tasks[t].pc \in pcs}

NoMark == [seen |-> FALSE, loops |-> {}, inFlight |-> {}]

InitObs ==
    /\ stopMark = NoMark
    /\ stepsDone = 0
    /\ paced = 0
    /\ earlier = NoUpload

Quiet == UNCHANGED obsVars

KeepRun == UNCHANGED <<upload, rdpTiming, stepsDone, paced, earlier>>

\* stop pressed: the loops that are playing now, and those of them with an
\* engine step in flight
MarkStop ==
    /\ stopMark' = [seen |-> TRUE,
                    loops |-> LoopsAt({"stepping", "delaying"}),
                    inFlight |-> LoopsAt({"stepping"})]
    /\ KeepRun

\* start pressed
MarkStart == stopMark' = NoMark /\ KeepRun

\* the step of t that was in flight is over
MarkStep(t) == stopMark' = [stopMark EXCEPT !.inFlight = @ \ {t}] /\ KeepRun

\* ------------------------------------------------------- store specification
InitPlayerVars ==
    /\ isInitialized = FALSE
    /\ replay = 0
    /\ engines = [h \in TaskIds |-> NewEngine]
    /\ isPlaying = FALSE
    /\ error = "none"
    /\ currentFrame = 0
    /\ canvasSize = DEFAULT_SIZE
    /\ cursorCanvas = 0
    /\ screen = Blank
    /\ tasks = [t \in TaskIds |-> NoTask]
    /\ events = 0

InitStoreVars ==
    /\ dbInstance = 0
    /\ openConns = {}
    /\ calls = [c \in CallIds |-> NoCall]
    /\ txQueue = <<>>
    /\ txUndo = EmptyStore
    /\ issued = 0
    /\ lastRes = NoRes
    /\ lastAck = NoAck

\* the database persists across page loads: any prior contents
InitStore ==
    /\ frames \in {f \in [Keys -> {Absent, 1}] : \A k \in Keys \ StoreKeys : f[k] = Absent}
    /\ InitStoreVars
    /\ InitPlayerVars
    /\ InitObs
    /\ upload = NoUpload
    /\ rdpTiming = <<>>
    /\ variant = "component"
    /\ timing = <<>>

\* a client of the store makes up to MaxOps calls
ClientCall == issued < MaxOps

NextStore ==
    \/ \E k \in StoreKeys, v \in StoreBlobs : ClientCall /\ storeFrame(k, v) /\ Quiet
    \/ \E k \in StoreKeys : ClientCall /\ getFrame(k) /\ Quiet
    \/ ClientCall /\ clearFrames /\ Quiet
    \/ ClientCall /\ getFrameCount /\ Quiet
    \/ openDatabase_onsuccess /\ Quiet
    \/ openDatabase_onerror /\ Quiet
    \/ request_onsuccess /\ Quiet
    \/ request_onerror /\ Quiet
    \/ tx_oncomplete /\ Quiet
    \/ tx_onabort /\ Quiet
    \/ closeDatabase /\ Quiet

SpecStore == InitStore /\ [][NextStore]_vars

\* ------------------------------------------------------- batch specification
\* a client that also stores arrays of frames and reads all frames back
NextBatch ==
    \/ \E b \in DOMAIN Batches : ClientCall /\ storeFrames(b) /\ Quiet
    \/ ClientCall /\ getAllFrames /\ Quiet
    \/ \E k \in StoreKeys, v \in StoreBlobs : ClientCall /\ storeFrame(k, v) /\ Quiet
    \/ \E k \in StoreKeys : ClientCall /\ getFrame(k) /\ Quiet
    \/ storeFrames_put_onsuccess /\ Quiet
    \/ storeFrames_put_onerror /\ Quiet
    \/ openDatabase_onsuccess /\ Quiet
    \/ openDatabase_onerror /\ Quiet
    \/ request_onsuccess /\ Quiet
    \/ request_onerror /\ Quiet
    \/ tx_oncomplete /\ Quiet
    \/ tx_onabort /\ Quiet

SpecBatch == InitStore /\ [][NextBatch]_vars

\* ------------------------------------------------------ player specification
\* the store holds the first n frames of the session
SessionStore(n) == [k \in Keys |-> IF k < n THEN Session[k + 1] ELSE Absent]

PlayerTimings == {<<>>, <<0, 5>>, <<0, 5, 8>>, <<2, 9, 4, 4>>, <<0, 5, 5>>}

\* a session whose pointer is set and then hidden
HiddenPointer == <<3, 4, 1>>

HiddenPointerStore == [k \in Keys |-> IF k < Len(HiddenPointer) THEN HiddenPointer[k + 1] ELSE Absent]

InitPlayer ==
    /\ \/ \E n \in {0, 1, MaxFrames} : frames = SessionStore(n)
       \/ frames = HiddenPointerStore
    /\ InitStoreVars
    /\ InitPlayerVars
    /\ InitObs
    /\ upload = NoUpload
    /\ variant \in {"component", "page"}
    /\ timing = <<>>
    /\ \E t \in PlayerTimings : rdpTiming = IF t = <<>> THEN <<>> ELSE <<TextOf(t)>>

\* the user presses any control at any time
NextPlayer ==
    \/ onMount_component /\ Quiet
    \/ onMount_page /\ Quiet
    \/ onMount_page_countRejected /\ Quiet
    \/ startReplay_component /\ MarkStart
    \/ \E t \in TaskIds : create_resolved(t) /\ Quiet
    \/ \E t \in TaskIds : create_rejected(t) /\ Quiet
    \/ startReplay_page /\ MarkStart
    \/ \E t \in TaskIds : step_resolved(t) /\ MarkStep(t)
    \/ \E t \in TaskIds : step_rejected(t) /\ MarkStep(t)
    \/ \E t \in TaskIds : timer_fired(t) /\ Quiet
    \/ stopReplay /\ MarkStop
    \/ resetReplay /\ Quiet
    \/ stepFrame /\ Quiet
    \/ \E t \in TaskIds : single_resolved(t) /\ Quiet
    \/ \E t \in TaskIds : single_rejected(t) /\ Quiet

SpecPlayer == InitPlayer /\ [][NextPlayer]_vars

\* --------------------------------------------------------- run specification
\* timing.json as the capture tool writes it, and damaged ones
Offsets == {<<0, 50, 120, 130, 200>>, <<0, 100, 250, 250, 300>>,
            <<7, 50, 120, 121, 125>>, <<0, 9, 4, 4, 30>>}

RunTimings == {SubSeq(o, 1, n) : o \in Offsets, n \in {0, MaxFrames - 1, MaxFrames}}

\* the folder the capture tool writes for n frames
Captured(n) == [k \in 1..n |-> FrameFile(k - 1)]

Reversed(fs) == [i \in 1..Len(fs) |-> fs[Len(fs) + 1 - i]]

\* the frame files of a dropped folder: a capture in either supply order, a
\* capture with a frame missing, one with a frame under two spellings, and
\* one with files that are neither frames nor the timing descriptor
FrameFolders ==
    {Captured(1), Captured(MaxFrames), Reversed(Captured(MaxFrames)),
     <<FrameFile(2), FrameFile(0)>>,
     <<[name |-> <<0, 1>>, data |-> 1], FrameFile(1), FrameFile(0)>>,
     <<[name |-> <<2, Dot, LetterJ>>, data |-> 2], FrameFile(1),
       [name |-> <<LetterT, Dot, LetterJ, LetterJ>>, data |-> 4], FrameFile(0)>>}

RunTexts == {TextOf(t) : t \in RunTimings} \cup {NoText}

\* the timing an earlier ingestion has left
EarlierTiming == <<0, 40, 90>>

\* a folder, with or without a timing.json, is dropped on a store with any
\* prior contents, then the player is opened and Play is pressed once
InitRun ==
    /\ frames \in {EmptyStore, SessionStore(MaxFrames)}
    /\ InitStoreVars
    /\ InitPlayerVars
    /\ InitObs
    /\ \/ \E fs \in FrameFolders : upload = [NoUpload EXCEPT !.files = fs]
       \/ \E fs \in FrameFolders, text \in RunTexts :
            upload = [NoUpload EXCEPT !.files = <<TimingFile>> \o fs, !.text = text]
    /\ rdpTiming \in {<<>>, <<TextOf(EarlierTiming)>>}
    /\ variant \in {"component", "page"}
    /\ timing = <<>>

KeepMarks == UNCHANGED <<stopMark, stepsDone, paced, earlier>>

Ingested == upload.pc = "success"

StoreSettles ==
    \/ openDatabase_onsuccess
    \/ openDatabase_onerror
    \/ request_onsuccess
    \/ request_onerror

StoreCommits ==
    \/ tx_oncomplete
    \/ tx_onabort

Ingests ==
    \/ processFiles_begin
    \/ processFiles_text
    \/ processFiles_read
    \/ processFiles_store
    \/ processFiles_unreadable
    \/ processFiles_count
    \/ processFiles_done
    \/ processFiles_catch

CreateSettles(t) ==
    \/ create_resolved(t)
    \/ create_rejected(t)

NextRun ==
    \/ processFiles_begin /\ KeepMarks
    \/ processFiles_text /\ KeepMarks
    \/ processFiles_read /\ KeepMarks
    \/ processFiles_store /\ KeepMarks
    \/ processFiles_unreadable /\ KeepMarks
    \/ processFiles_count /\ KeepMarks
    \/ processFiles_done /\ KeepMarks
    \/ processFiles_catch /\ KeepMarks
    \/ openDatabase_onsuccess /\ Quiet
    \/ openDatabase_onerror /\ Quiet
    \/ request_onsuccess /\ Quiet
    \/ request_onerror /\ Quiet
    \/ tx_oncomplete /\ Quiet
    \/ tx_onabort /\ Quiet
    \/ Ingested /\ onMount_component /\ Quiet
    \/ Ingested /\ onMount_page /\ Quiet
    \/ Ingested /\ events = 0 /\ startReplay_component /\ Quiet
    \/ Ingested /\ events = 0 /\ startReplay_page /\ Quiet
    \/ \E t \in TaskIds : create_resolved(t) /\ Quiet
    \/ \E t \in TaskIds : create_rejected(t) /\ Quiet
    \/ \E t \in TaskIds : step_resolved(t) /\ stepsDone' = stepsDone + 1
                            /\ UNCHANGED <<upload, rdpTiming, stopMark, paced, earlier>>
    \/ \E t \in TaskIds : step_rejected(t) /\ Quiet
    \/ \E t \in TaskIds : timer_fired(t) /\ paced' = paced + tasks[t].delay
                            /\ UNCHANGED <<upload, rdpTiming, stopMark, stepsDone, earlier>>

\* every pending promise settles and every timer fires
FairRun ==
    /\ WF_vars(Ingests /\ KeepMarks)
    /\ WF_vars(StoreSettles /\ Quiet)
    /\ WF_vars(StoreCommits /\ Quiet)
    /\ WF_vars(\E t \in TaskIds : CreateSettles(t) /\ Quiet)
    /\ WF_vars(\E t \in TaskIds : (step_resolved(t) /\ stepsDone' = stepsDone + 1
                                     /\ UNCHANGED <<upload, rdpTiming, stopMark, paced, earlier>>)
                                  \/ (step_rejected(t) /\ Quiet))
    /\ WF_vars(\E t \in TaskIds : timer_fired(t) /\ paced' = paced + tasks[t].delay
                                     /\ UNCHANGED <<upload, rdpTiming, stopMark, stepsDone, earlier>>)

SpecRun == InitRun /\ [][NextRun]_vars /\ FairRun

\* -------------------------------------------------------- sort specification
\* names with and without leading digits, among them the same number spelt
\* in two ways
SortNames == {<<0>>, <<1>>, <<2>>, <<1, 0>>, <<0, 1>>, TimingJson, <<2, Dot, LetterJ>>,
              <<Dot, LetterJ>>}

FileOf(name) == [name |-> name, data |-> 0]

\* the lists of at most MaxFiles files with different names, in any order
FileLists ==
    {fs \in UNION {[1..n -> {FileOf(nm) : nm \in SortNames}] : n \in 0..MaxFiles} :
        \A i, j \in DOMAIN fs : i # j => fs[i] # fs[j]}

InitSort ==
    /\ frames = EmptyStore
    /\ InitStoreVars
    /\ InitPlayerVars
    /\ InitObs
    /\ variant = "page"
    /\ timing = <<>>
    /\ rdpTiming = <<>>
    /\ \E fs \in FileLists : upload = [NoUpload EXCEPT !.files = fs]

NextSort == naturalSort_call /\ KeepMarks

SpecSort == InitSort /\ [][NextSort]_vars

\* ------------------------------------------------- two-drop specification
\* the folder of the earlier drop: its bytes differ from every later folder's
EarlierDrop == [k \in 1..MaxFrames |-> [name |-> Digits(k - 1), data |-> 4]]

\* one iteration of the earlier invocation's loop, run while no other
\* transaction is queued: `await file.arrayBuffer()`, `await storeFrame(...)`
\* on the cached connection, the put succeeds and its transaction commits
processFiles_earlier_store ==
    /\ earlier.pc = "storing" /\ earlier.i < earlier.n
    /\ dbInstance # 0 /\ txQueue = <<>>
    /\ LET file == pduFilter(earlier.fileArray)[earlier.i + 1]
       IN frames' = [frames EXCEPT ![parseInt(file.name)] = file.data]
    /\ earlier' = [earlier EXCEPT !.i = @ + 1]
    /\ lastAck' = NoAck
    /\ UNCHANGED <<dbInstance, openConns, calls, txQueue, txUndo, issued, lastRes>>
    /\ UNCHANGED <<playerVars, upload, rdpTiming, stopMark, stepsDone, paced>>

\* the earlier invocation after its loop, run while no other transaction is
\* queued: `frameCount = await getFrameCount()`, status 'success'
processFiles_earlier_done ==
    /\ earlier.pc = "storing" /\ earlier.i = earlier.n
    /\ dbInstance # 0 /\ txQueue = <<>>
    /\ earlier' = [earlier EXCEPT !.pc = "success", !.frameCount = CountOf(frames)]
    /\ UNCHANGED <<storeVars, playerVars, upload, rdpTiming, stopMark, stepsDone, paced>>

\* a folder was dropped and its processFiles has cleared the store and is in
\* its loop; nothing disables the drop zone, and a second folder is dropped
InitTwo ==
    /\ frames = EmptyStore
    /\ dbInstance = 1 /\ openConns = {1}
    /\ calls = [c \in CallIds |-> NoCall]
    /\ txQueue = <<>> /\ txUndo = EmptyStore
    /\ issued = 0 /\ lastRes = NoRes /\ lastAck = NoAck
    /\ InitPlayerVars
    /\ stopMark = NoMark /\ stepsDone = 0 /\ paced = 0
    /\ variant = "page"
    /\ timing = <<>>
    /\ rdpTiming = <<>>
    /\ earlier = [NoUpload EXCEPT !.pc = "storing", !.files = EarlierDrop,
                                  !.fileArray = EarlierDrop, !.n = Len(EarlierDrop)]
    /\ \E fs \in FrameFolders : upload = [NoUpload EXCEPT !.files = fs]

NextTwo ==
    \/ processFiles_begin /\ KeepMarks
    \/ processFiles_read /\ KeepMarks
    \/ processFiles_store /\ KeepMarks
    \/ processFiles_unreadable /\ KeepMarks
    \/ processFiles_count /\ KeepMarks
    \/ processFiles_done /\ KeepMarks
    \/ processFiles_catch /\ KeepMarks
    \/ request_onsuccess /\ Quiet
    \/ request_onerror /\ Quiet
    \/ tx_oncomplete /\ Quiet
    \/ tx_onabort /\ Quiet
    \/ processFiles_earlier_store
    \/ processFiles_earlier_done

SpecTwo == InitTwo /\ [][NextTwo]_vars

\* ------------------------------------------------------------------ claims

\* C1: a put(i, b) that reported success, followed by get(i) with no put(i, _)
\* or clear in between, returns exactly b.
C1_PutGetRoundTrip ==
    (lastRes.op = "get" /\ lastRes.ok /\ lastRes.expect \in Blobs)
        => lastRes.res = lastRes.expect

\* C2: a clear() that reported success, followed by count() with no put in
\* between, yields 0 whatever the store held before.
C2_ClearThenCountZero ==
    (lastRes.op = "count" /\ lastRes.ok /\ lastRes.expect = 0)
        => lastRes.res = 0

\* the invocations of playFrames that are inside the loop
ActiveLoops == LoopsAt({"stepping", "delaying"})

\* C3: under every interleaving of start, stop, step and reset at most one
\* playback loop is active, and no loop that predates the live session handle
\* is still active (the component's task t plays the handle it created, t).
C3_OneLoopPerHandle ==
    /\ Cardinality(ActiveLoops) <= 1
    /\ variant = "component" => \A t \in ActiveLoops : replay = t

\* C4: after a stop that no start follows, the loop that was playing begins
\* no engine step: the only step it can have pending is the one that was in
\* flight when stop was pressed.
C4_NoStepAfterStop ==
    stopMark.seen =>
        \A t \in stopMark.loops : tasks[t].pc = "stepping" => t \in stopMark.inFlight

\* C5: the delay the loop waits after decoding a frame is the time offset of
\* the entry at currentFrame minus the previous time offset, which in an
\* uninterrupted run is the offset of the entry before it; without an entry at
\* currentFrame (empty or short index) it is 16.
C5_PacingDelay ==
    /\ [][\A t \in TaskIds :
            (tasks[t].pc = "stepping" /\ tasks'[t].pc = "delaying") =>
                tasks'[t].delay = IF currentFrame' < Len(timing)
                                  THEN timing[currentFrame' + 1] - tasks[t].lastTimeOffset
                                  ELSE 16]_vars
    /\ [](\A t \in TaskIds :
            tasks[t].pc = "delaying" =>
                tasks[t].delay = IF currentFrame < Len(timing)
                                 THEN timing[currentFrame + 1] - timing[currentFrame]
                                 ELSE 16)

\* offsets [0,100,250]: the loop waits 150 after the second frame
C5_Witness ==
    \E t \in TaskIds :
        /\ timing = <<0, 100, 250>>
        /\ tasks[t].pc = "delaying" /\ currentFrame = 2 /\ tasks[t].delay = 150

\* the run is over in Complete
RunComplete == \E t \in TaskIds : tasks[t].kind = "loop" /\ tasks[t].pc = "complete"

\* C6: after the ingestion of n frames with n timing entries count() is n, and
\* an uninterrupted playback ends in Complete after exactly n engine steps
\* with a total pacing time in [lastOffset, lastOffset + 16).
C6_EndToEnd ==
    (/\ upload.files = <<TimingFile>> \o Captured(Len(upload.files) - 1)
     /\ upload.text.ok /\ Len(upload.text.entries) = Len(upload.files) - 1) =>
        LET n == Len(upload.files) - 1
            offsets == upload.text.entries
        IN /\ Ingested => upload.frameCount = n
           /\ RunComplete =>
               /\ stepsDone = n
               /\ ~isPlaying /\ error = "none"
               /\ paced >= offsets[n]
               /\ paced < offsets[n] + 16

\* C7: when a step of the loop resolves with hasMore = false the loop exits
\* with isPlaying cleared and never steps or waits again; with every promise
\* settling and every timer firing, an uninterrupted playback reaches Complete
\* (or the error state, when an engine call throws).
C7_CompleteAtEnd ==
    /\ [][\A t \in TaskIds :
            (/\ tasks[t].kind = "loop" /\ tasks[t].pc = "stepping"
             /\ stepsDone' # stepsDone
             /\ ~HasMore(engines[tasks[t].h])) =>
                (tasks'[t].pc = "complete" /\ ~isPlaying')]_vars
    /\ [][RunComplete => UNCHANGED <<tasks, stepsDone, paced>>]_vars
    /\ (\E t \in TaskIds : tasks[t].kind = "loop" /\ tasks[t].pc = "stepping")
          ~> (\E t \in TaskIds : tasks[t].kind = "loop" /\ tasks[t].pc \in {"complete", "failed"})

\* the loop has played a whole session of several frames
C7_Witness ==
    /\ RunComplete /\ ~isPlaying
    /\ upload.n = MaxFrames /\ stepsDone = upload.n /\ currentFrame = upload.n

\* C8: when Replay.create or a step of the loop throws, the loop halts with
\* isPlaying false and an error message, currentFrame and the canvas stay as
\* they were, and that run issues no further engine step.
C8_ErrorHaltsLoop ==
    /\ [][\A t \in TaskIds :
            (/\ tasks[t].kind = "loop" /\ tasks[t].pc \in {"creating", "stepping"}
             /\ tasks'[t].pc = "failed") =>
                (/\ ~isPlaying' /\ error' # "none"
                 /\ currentFrame' = currentFrame /\ screen' = screen)]_vars
    /\ [][\A t \in TaskIds : tasks[t].pc = "failed" => tasks'[t] = tasks[t]]_vars

\* a step threw after a frame had been rendered
C8_Witness ==
    \E t \in TaskIds :
        /\ tasks[t].kind = "loop" /\ tasks[t].pc = "failed"
        /\ error = "playback" /\ ~isPlaying
        /\ currentFrame >= 1 /\ screen.pix = currentFrame

\* what the first playthrough shows after its k-th step
FirstPlay(k) == [pix |-> k, size |-> DesktopAfter(k), cursor |-> PointerAfter(k)]

\* C9: reset leaves currentFrame = 0 each time it is called, and the steps
\* after it render what the first playthrough rendered: on the page, whose
\* only way back to frame 0 is reset, the canvas after the k-th step of the
\* session always shows the first playthrough's k-th picture.
C9_ResetReproducible ==
    /\ [][resetReplay => currentFrame' = 0]_vars
    /\ []((variant = "page" /\ screen.pix >= 1) => screen = FirstPlay(screen.pix))

\* C10: reset in any state leaves the player idle: not playing, at frame 0,
\* the engine rewound, the session handle kept.
C10_ResetToIdle ==
    [][resetReplay =>
        (/\ ~isPlaying' /\ currentFrame' = 0
         /\ replay' = replay /\ engines'[replay] = NewEngine)]_vars

\* C11: currentFrame never decreases from one state to the next, except by an
\* explicit reset, which sets it to 0.
C11_FrameMonotonic ==
    [][currentFrame' < currentFrame => (resetReplay /\ currentFrame' = 0)]_vars

\* C12: a single step is issued only while isPlaying is false; when it
\* resolves on the live handle the engine has advanced by one frame (none at
\* the end of the session), the change flags are consumed into the canvas
\* size and the cursor surface, the frame is rendered with them, and the
\* invocation is over: it never waits for a pacing delay.
C12_SingleStep ==
    /\ [][\A t \in TaskIds :
            (tasks[t].kind # "step" /\ tasks'[t].kind = "step") =>
                (~isPlaying /\ tasks'[t].pc = "stepping" /\ tasks'[t].h = replay)]_vars
    /\ [][\A t \in TaskIds :
            (/\ tasks[t].kind = "step" /\ tasks[t].pc = "stepping"
             /\ tasks'[t].pc = "complete" /\ tasks[t].h = replay) =>
                LET e == engines[replay]
                    n == IF e.cur < TotalFrames THEN e.cur + 1 ELSE e.cur
                    resized == e.resolutionChanged \/ (n > e.cur /\ frames[e.cur] = 2)
                    pointed == e.pointerBitmapChanged \/ (n > e.cur /\ frames[e.cur] \in {3, 4})
                IN /\ engines'[replay] = [NewEngine EXCEPT !.cur = n]
                   /\ currentFrame' = n
                   /\ canvasSize' = IF resized THEN DesktopAfter(n) ELSE canvasSize
                   /\ cursorCanvas' = IF pointed THEN PointerAfter(n) ELSE cursorCanvas
                   /\ screen' = [pix |-> n, size |-> canvasSize', cursor |-> cursorCanvas']
                   /\ isPlaying' = isPlaying]_vars
    /\ [](\A t \in TaskIds :
            tasks[t].kind = "step" => (tasks[t].pc \in {"stepping", "complete", "failed"}
                                        /\ tasks[t].delay = 0))

\* a single step has decoded a pointer frame and rendered it with its cursor
C12_Witness ==
    \E t \in TaskIds :
        /\ tasks[t].kind = "step" /\ tasks[t].pc = "complete"
        /\ ~isPlaying /\ currentFrame = 2 /\ screen = [pix |-> 2, size |-> DEFAULT_SIZE, cursor |-> 2]

\* the invocations of playFrames that a handle has been played by
PriorAttempt == \E t \in TaskIds : tasks[t].kind = "loop" /\ tasks[t].pc \notin {"creating"}

\* C13: a session handle is created, and the player starts playing, only when
\* the store holds at least one frame and the engine is initialized.
C13_StartNeedsFrames ==
    [][((replay' # replay /\ replay' # 0)
          \/ (\E t \in TaskIds : tasks[t].pc # "creating" /\ tasks'[t].pc = "creating")
          \/ (~isPlaying /\ isPlaying'))
        => (TotalFrames > 0 /\ isInitialized')]_vars

\* C14: every start that follows an earlier playback attempt plays a session
\* handle constructed for it: the live handle changes and its engine is fresh.
C14_FreshHandlePerStart ==
    [][(~isPlaying /\ isPlaying' /\ PriorAttempt)
        => (replay' # replay /\ engines'[replay'] = NewEngine)]_vars

\* the names of the frame candidates of a sorted file array, in its order
CandidateNames(fileArray) == [i \in DOMAIN pduFilter(fileArray) |-> pduFilter(fileArray)[i].name]

Candidates == {i \in DOMAIN upload.files : IsFrameName(upload.files[i].name)}

PresentKeys == {k \in Keys : frames[k] # Absent}

\* C16: after a successful ingestion the store holds, under the number each
\* candidate's name spells, the bytes of that candidate.
C16_StoredUnderName ==
    Ingested =>
        \A i \in Candidates : frames[parseInt(upload.files[i].name)] = upload.files[i].data

\* C17: after a successful ingestion the keys present are exactly the numbers
\* the new candidates' names spell: nothing of an earlier session remains.
C17_ReplacesPriorData ==
    Ingested => PresentKeys = {parseInt(upload.files[i].name) : i \in Candidates}

\* C18: after a completed ingestion whose timing.json does not parse, the
\* timing the player loads and plays with is empty and every pacing delay is
\* the fallback delay.
C18_BadTimingMeansEmpty ==
    (Ingested /\ TimingFileIn(upload.files) /\ ~upload.text.ok) =>
        /\ LoadedTiming = <<>>
        /\ \A t \in TaskIds : tasks[t].pc = "delaying" => tasks[t].delay = FALLBACK_DELAY

\* what the store holds with the transactions committed so far
CommittedFrames == IF \E c \in CallIds : calls[c].pc = "committing" THEN txUndo ELSE frames

\* the keys this ingestion has called storeFrame with
WrittenKeys == {parseInt(pduFilter(upload.fileArray)[j].name) : j \in 1..upload.i}

\* the await of processFiles that settled last was rejected
StoreFailed == upload.pc \in {"clearing", "storing", "counting"} /\ Settled /\ ~lastRes.ok

C20_ContiguousKeys ==
    Ingested => PresentKeys = 0..(CountOf(frames) - 1)

\* the calls made in this step
Called(c) == calls[c].pc = "free" /\ calls'[c].pc # "free"

\* C21: the cached connection is an open one, and every call made while it is
\* there uses it: the call's transaction is queued at once and no connection
\* is opened or replaced.
C21_OpenIdempotent ==
    /\ [](dbInstance # 0 => dbInstance \in openConns)
    /\ [][\A c \in CallIds :
            (Called(c) /\ dbInstance # 0) =>
                /\ calls'[c].pc = "queued"
                /\ dbInstance' = dbInstance /\ openConns' = openConns]_vars

\* two calls are pending on the one connection
C21_Witness ==
    /\ dbInstance # 0 /\ openConns = {dbInstance}
    /\ \A c \in CallIds : calls[c].pc = "queued"

\* C22: closeDatabase forgets the cached connection and closes it, touching no
\* frame and no pending call; a call made with no cached connection opens one,
\* the open leaves the frames as they were, and a read that succeeds returns
\* what the store holds.
C22_CloseThenReopen ==
    /\ [](dbInstance # 0 => dbInstance \in openConns)
    /\ [][(dbInstance # 0 /\ dbInstance' = 0) =>
            /\ openConns' = openConns \ {dbInstance}
            /\ frames' = frames /\ calls' = calls /\ txQueue' = txQueue]_vars
    /\ [][\A c \in CallIds :
            /\ (Called(c) /\ dbInstance = 0) => calls'[c].pc = "opening"
            /\ (calls[c].pc = "opening" /\ calls'[c].pc = "queued") =>
                  (dbInstance' \in openConns' \ openConns /\ frames' = frames)]_vars
    /\ [][(lastRes' # lastRes /\ lastRes'.ok /\ lastRes'.op \in {"get", "count"}) =>
            lastRes'.res = IF lastRes'.op = "get" THEN frames[lastRes'.key]
                           ELSE CountOf(frames)]_vars

\* after a write succeeded the connection was closed, and a read of a stored
\* frame is opening the store again
C22_Witness ==
    /\ dbInstance = 0 /\ openConns = {}
    /\ lastRes.op = "put" /\ lastRes.ok
    /\ \E c \in CallIds : calls[c].op = "get" /\ calls[c].pc = "opening"
                            /\ frames[calls[c].key] # Absent

\* C23: what an abort of a storeFrames transaction restores is the store as
\* it was before the first put of the batch, through every later put of it;
\* when the transaction of a storeFrames is over the store holds the
\* whole batch over what it held before, or exactly what it held before; no
\* read succeeds while a batch is partly written or uncommitted; and
\* storeFrames reports success only for a batch that is committed whole.
C23_BatchAtomic ==
    /\ [][\A c \in CallIds :
            (calls[c].op = "putAll" /\ calls'[c].op = "putAll" /\ calls'[c].key > 0) =>
                txUndo' = IF calls[c].key = 0 THEN frames ELSE txUndo]_vars
    /\ [][\A c \in CallIds :
            LET before == IF calls[c].pc = "committing" \/ calls[c].key > 0 THEN txUndo ELSE frames
                batch == Batches[calls[c].val]
            IN (calls[c].op = "putAll" /\ calls'[c].op = "none") =>
                  \/ frames' = before
                  \/ frames' = [k \in Keys |-> IF k < Len(batch) THEN batch[k + 1] ELSE before[k]]]_vars
    /\ [][(lastRes' # lastRes /\ lastRes'.ok /\ lastRes'.op \in {"get", "count", "getAll"}) =>
            ~\E c \in CallIds : calls[c].op = "putAll" /\ calls[c].key > 0]_vars
    /\ [][(lastRes' # lastRes /\ lastRes'.op = "putAll" /\ lastRes'.ok) =>
            /\ txQueue # <<>> /\ calls[Head(txQueue)].op = "putAll"
            /\ calls[Head(txQueue)].pc = "committing"
            /\ frames' = frames
            /\ LET batch == Batches[calls[Head(txQueue)].val]
               IN frames = [k \in Keys |-> IF k < Len(batch) THEN batch[k + 1] ELSE txUndo[k]]]_vars

\* a batch was written over a stored frame and reported
C23_Witness ==
    /\ lastRes.op = "putAll" /\ lastRes.ok
    /\ \A c \in CallIds : calls[c].pc = "free"
    /\ frames[0] = 2 /\ frames[1] = 1

\* C24: a get of a key with no frame, when its request succeeds, resolves to
\* absent; it and every other read leave each frame under its key.
C24_AbsentIsNoError ==
    /\ [][(request_onsuccess /\ calls[Head(txQueue)].op = "get"
             /\ frames[calls[Head(txQueue)].key] = Absent) =>
            (lastRes'.op = "get" /\ lastRes'.ok /\ lastRes'.res = Absent)]_vars
    /\ [][(lastRes' # lastRes /\ lastRes'.op \in {"get", "count", "getAll"}) => frames' = frames]_vars

\* a get of the gap below a stored frame has answered
C24_Witness ==
    /\ lastRes.op = "get" /\ lastRes.ok /\ lastRes.key = 0 /\ lastRes.res = Absent
    /\ frames[0] = Absent /\ frames[1] # Absent

\* C25: the array getAllFrames resolves to holds at position k the frame
\* stored under key k and a hole where no frame is, and ends with the last
\* stored frame.
C25_GetAllByKey ==
    [][(lastRes' # lastRes /\ lastRes'.op = "getAll" /\ lastRes'.ok) =>
         \A k \in Keys :
            IF k < Len(lastRes'.res) THEN lastRes'.res[k + 1] = frames[k]
            ELSE frames[k] = Absent]_vars

\* getAllFrames has answered for a store with a gap at key 0
C25_Witness ==
    /\ lastRes.op = "getAll" /\ lastRes.ok
    /\ Len(lastRes.res) = 2 /\ lastRes.res[1] = Absent /\ lastRes.res[2] # Absent

\* C26: a clearFrames that has reported success is committed: its transaction
\* does not abort afterwards.
C26_ClearReportsAbort ==
    [][~(tx_onabort /\ calls[Head(txQueue)].op = "clear")]_vars

\* C27: a frame count that failed when the player page was mounted has been
\* turned into the page's error status.
C27_StorageFailuresSurface ==
    (variant = "page" /\ lastRes.op = "count" /\ ~lastRes.ok) => error # "none"

\* task t's step() has resolved on the live handle and decoded a frame
Decoded(t) ==
    /\ tasks[t].pc = "stepping" /\ tasks[t].h = replay
    /\ engines[replay].cur < TotalFrames
    /\ engines'[replay] # engines[replay]
    /\ step_resolved(t) \/ single_resolved(t)

\* C28: once the handling after a step is over both flags of the live handle
\* are clear; a step that decoded a resize frame sets the canvas to the new
\* desktop size and one that decoded a pointer frame rebuilds the cursor
\* surface from the new bitmap; a step that decoded neither, a step of an
\* engine at its end, and every other action leave the canvas size alone.
C28_FlagsOneShot ==
    /\ [](replay # 0 => /\ ~engines[replay].resolutionChanged
                        /\ ~engines[replay].pointerBitmapChanged)
    /\ [][\A t \in TaskIds : Decoded(t) =>
            LET k == engines[replay].cur
            IN /\ canvasSize' = IF frames[k] = 2 THEN k + 1 ELSE canvasSize
               /\ cursorCanvas' = IF frames[k] = 3 THEN k + 1
                                  ELSE IF frames[k] = 4 THEN 0 ELSE cursorCanvas]_vars
    /\ [][canvasSize' # canvasSize => \E t \in TaskIds : Decoded(t)]_vars

\* a pointer change and then a resolution change have each been applied
C28_Witness ==
    /\ replay # 0 /\ currentFrame = 3 /\ engines[replay].cur = 3
    /\ frames[1] = 3 /\ frames[2] = 2
    /\ canvasSize = 3 /\ cursorCanvas = 2

\* C29: the cached cursor surface changes only in a step that decoded a
\* pointer frame on the live handle; when that frame carries an empty bitmap
\* the cache becomes empty and the frame is drawn without a cursor, otherwise
\* the cache and the drawn cursor are the new bitmap.
C29_CursorCache ==
    /\ [][cursorCanvas' # cursorCanvas =>
            \E t \in TaskIds : Decoded(t) /\ frames[engines[replay].cur] \in {3, 4}]_vars
    /\ [][\A t \in TaskIds : (Decoded(t) /\ frames[engines[replay].cur] = 4) =>
            (cursorCanvas' = 0 /\ screen'.cursor = 0)]_vars
    /\ [][\A t \in TaskIds : (Decoded(t) /\ frames[engines[replay].cur] = 3) =>
            (cursorCanvas' = engines[replay].cur + 1 /\ screen'.cursor = cursorCanvas')]_vars

\* the pointer was set and then hidden: the cache is empty again
C29_Witness ==
    /\ replay # 0 /\ frames[0] = 3 /\ frames[1] = 4
    /\ currentFrame = 2 /\ screen.pix = 2
    /\ cursorCanvas = 0 /\ screen.cursor = 0

\* C30: when the loop's step resolves with frames left while playing, and the
\* timing entry of the new playhead lies at or before the last offset, the
\* loop is at once in its next step on the live handle, with no timer
\* started, no error set and playback still on, and the entry's offset is
\* the new last offset.
C30_NoWaitOnNonPositiveDelay ==
    [][\A t \in TaskIds :
         (/\ tasks[t].kind = "loop" /\ tasks[t].pc = "stepping" /\ isPlaying
          /\ HasTiming(currentFrame')
          /\ timing[currentFrame' + 1] - tasks[t].lastTimeOffset <= 0
          /\ HasMore(engines[tasks[t].h])
          /\ step_resolved(t)) =>
            /\ tasks'[t].pc = "stepping" /\ tasks'[t].h = replay
            /\ tasks'[t].lastTimeOffset = timing[currentFrame' + 1]
            /\ error' = error /\ isPlaying']_vars

\* the loop went on without a timer after a decreasing, or a repeated, offset
C30_Witness ==
    /\ isPlaying /\ error = "none" /\ currentFrame = 2
    /\ timing \in {<<2, 9, 4, 4>>, <<0, 5, 5>>}
    /\ \E t \in TaskIds : /\ tasks[t].kind = "loop" /\ tasks[t].pc = "stepping"
                          /\ tasks[t].lastTimeOffset = timing[3]

\* C31: the timing kept for the player belongs to the ingestion whose frames
\* the store holds: after a completed ingestion it is what that ingestion's
\* timing.json holds, or nothing; and while the store still holds the earlier
\* session's frames, because the ingestion failed before it wrote any frame,
\* it is still the earlier timing.
C31_TimingWithFrames ==
    LET kept == IF rdpTiming = <<>> THEN <<>> ELSE rdpTiming[1].entries
    IN /\ Ingested =>
            kept = IF TimingFileIn(upload.files) /\ upload.text.ok
                   THEN upload.text.entries ELSE <<>>
       /\ (upload.pc = "error" /\ upload.i = 0 /\ TotalFrames > 0) =>
            kept \in {<<>>, EarlierTiming}

\* C32: every storeFrame the ingestion calls carries the bytes of a given
\* file whose name is digits from end to end, under the number the name
\* spells; the loop runs once for each such file and for no other; and the
\* timing kept for the player changes to a text only when a file named
\* exactly timing.json is among the files, and then to that file's text.
C32_PartitionByName ==
    /\ [][\A c \in CallIds :
            (Called(c) /\ calls'[c].op = "put") =>
                \E i \in DOMAIN upload.files :
                    LET name == upload.files[i].name
                    IN /\ name # <<>> /\ \A j \in DOMAIN name : name[j] \in 0..9
                       /\ calls'[c].key = DecimalValue(name)
                       /\ calls'[c].val = upload.files[i].data]_vars
    /\ [](upload.pc \notin {"idle", "reading"} =>
            /\ upload.n = Cardinality({i \in DOMAIN upload.files :
                             LET name == upload.files[i].name
                             IN name # <<>> /\ \A j \in DOMAIN name : name[j] \in 0..9})
            /\ upload.i <= upload.n)
    /\ [][(rdpTiming' # rdpTiming /\ rdpTiming' # <<>>) =>
            /\ \E i \in DOMAIN upload.files : upload.files[i].name = <<LetterT, Dot, LetterJ>>
            /\ rdpTiming' = <<upload.text>>]_vars

\* a folder with the files "2.j" and "t.jj" beside two frames was ingested:
\* the store holds the two frames and nothing under key 2
C32_Witness ==
    /\ Ingested /\ upload.frameCount = 2 /\ upload.i = 2
    /\ \E i \in DOMAIN upload.files : upload.files[i].name = <<2, Dot, LetterJ>>
    /\ frames[0] = Session[1] /\ frames[1] = Session[2] /\ frames[2] = Absent

\* C33: when a step has decoded frame k on the live handle, what follows in
\* the same turn is: currentFrame is read from the engine; a resize frame has
\* resized the canvas before the blit, so the picture of the frame stands on
\* a canvas of the new size; a pointer frame has rebuilt the cursor surface
\* before the composite, so the cursor drawn over the picture is the new one;
\* and only then the loop computes its delay, from the new currentFrame.
C33_OrderWithinIteration ==
    [][\A t \in TaskIds : Decoded(t) =>
         LET k == engines[replay].cur
         IN /\ currentFrame' = k + 1
            /\ screen'.pix = k + 1
            /\ screen'.size = IF frames[k] = 2 THEN k + 1 ELSE canvasSize
            /\ screen'.size = canvasSize'
            /\ screen'.cursor = IF frames[k] = 3 THEN k + 1
                                ELSE IF frames[k] = 4 THEN 0 ELSE cursorCanvas
            /\ screen'.cursor = cursorCanvas'
            /\ tasks'[t].pc = "delaying" =>
                 /\ tasks[t].kind = "loop"
                 /\ tasks'[t].delay > 0
                 /\ tasks'[t].delay = IF k + 1 < Len(timing)
                                      THEN timing[k + 2] - tasks[t].lastTimeOffset
                                      ELSE FALLBACK_DELAY]_vars

\* a loop or a single step has drawn the resize frame on the resized canvas,
\* under the cursor set by the frame before it
C33_Witness ==
    /\ screen = [pix |-> 3, size |-> 3, cursor |-> 2]
    /\ currentFrame = 3 /\ frames[2] = 2
    /\ \E t \in TaskIds : tasks[t].pc \in {"delaying", "complete"}

\* C34: at most one replay.step() is pending at any time.
C34_OneStepInFlight ==
    Cardinality({t \in TaskIds : tasks[t].pc = "stepping"}) <= 1

\* C35: once two overlapping ingestions have both finished, the store holds
\* the frames of one of them: under every key a candidate of that ingestion
\* spells, bytes of such a candidate, and nothing under any other key.
C35_NoMixedIngestions ==
    (upload.pc = "success" /\ earlier.pc = "success") =>
        \E u \in {upload, earlier} :
            \A k \in Keys :
                LET named == {i \in DOMAIN u.files :
                                IsFrameName(u.files[i].name) /\ parseInt(u.files[i].name) = k}
                IN IF named = {} THEN frames[k] = Absent
                   ELSE \E i \in named : frames[k] = u.files[i].data

\* C36: at most one connection is open at any time, and an open connection
\* is the cached one.
C36_OneConnection ==
    /\ Cardinality(openConns) <= 1
    /\ openConns \subseteq {dbInstance}

\* C37: the number of frames a successful ingestion reports as loaded is the
\* number of frames in the store, which is also the count it has read.
C37_ReportedIsStored ==
    Ingested => (upload.n = CountOf(frames) /\ upload.n = upload.frameCount)

\* C38: whenever the loop begins to wait after a frame that has a timing
\* entry, with a frame decoded before it, the delay is the entry's offset
\* minus the offset of the entry before it.
C38_DelayIsDelta ==
    [][\A t \in TaskIds :
         (/\ tasks[t].pc = "stepping" /\ tasks'[t].pc = "delaying"
          /\ currentFrame' >= 1 /\ HasTiming(currentFrame')) =>
            tasks'[t].delay = timing[currentFrame' + 1] - timing[currentFrame']]_vars

\* C39: with a live handle and no engine step in flight, currentFrame is the
\* playhead of the live handle's engine.
C39_FrameIsPlayhead ==
    (replay # 0 /\ \A t \in TaskIds : tasks[t].pc # "stepping") =>
        currentFrame = engines[replay].cur

====
